---- MODULE Spec2Model ----
(***************************************************************************)
(* Model of utilities/analyzeMonitor.py of LoRaMesher: the per-node log    *)
(* ingestion (Node.getAddr, Node.getPackets), the aggregation              *)
(* (printGeneralInfo), the correlation loop (showPlot), the queue-depth    *)
(* timeline (plotPacketSendQueue) and the main program that runs them.     *)
(*                                                                         *)
(* Text is modelled as Python handles it: a str is a sequence of           *)
(* one-character strings, a log line is split on " ", and int(), hex(),    *)
(* strptime() and strftime() are computed character by character.          *)
(***************************************************************************)
EXTENDS Integers, Sequences, FiniteSets, TLC

(***************************************************************************)
(* Python values.  Every value carries its type, so that comparisons       *)
(* between values of different types (0 == "12:00:00.000") are False as in *)
(* Python, and a raised exception is a value of its own.                   *)
(***************************************************************************)
PyInt(n) == <<"int", n>>
PyStr(s) == <<"str", s>>
PyDt(sec, us) == <<"datetime", sec, us>>
Raise(e) == <<"raise", e>>

IsInt(v) == v[1] = "int"
IsStr(v) == v[1] = "str"
IsDt(v) == v[1] = "datetime"
IsRaise(v) == v[1] = "raise"

\* asyncio.windows_events.NULL is _winapi.NULL, the integer 0
NULL == PyInt(0)

headerPacketSize == 6
dataPacketSize == 2
dataControlPacketSize == 3

NEED_ACK_P == 1
DATA_P == 2
HELLO_P == 4
ACK_P == 8
XL_DATA_P == 16
LOST_P == 32
SYNC_P == 64

(***************************************************************************)
(* datetime: seconds since 1900-01-01 00:00:00 (the date strptime gives a  *)
(* time of day) and microseconds 0..999999.                                *)
(***************************************************************************)
DtLE(a, b) == a[2] < b[2] \/ (a[2] = b[2] /\ a[3] <= b[3])
DtLT(a, b) == a[2] < b[2] \/ (a[2] = b[2] /\ a[3] < b[3])
DtAddMicros(d, k) ==
    LET u == d[3] + k IN PyDt(d[2] + (u \div 1000000), u % 1000000)
DtAddDays(d, n) == PyDt(d[2] + 86400 * n, d[3])
DtHour(d) == (d[2] \div 3600) % 24

(***************************************************************************)
(* str                                                                     *)
(***************************************************************************)
Digits == <<"0", "1", "2", "3", "4", "5", "6", "7", "8", "9",
            "a", "b", "c", "d", "e", "f">>
UpperDigits == <<"0", "1", "2", "3", "4", "5", "6", "7", "8", "9",
                 "A", "B", "C", "D", "E", "F">>

\* value of a digit character, 99 when the character is no digit
DigitVal(c) ==
    IF \E i \in 1..16 : Digits[i] = c
    THEN (CHOOSE i \in 1..16 : Digits[i] = c) - 1
    ELSE IF \E i \in 1..16 : UpperDigits[i] = c
    THEN (CHOOSE i \in 1..16 : UpperDigits[i] = c) - 1
    ELSE 99

IsSpace(c) == c \in {" ", "\n", "\t", "\r"}

RECURSIVE LStrip(_)
LStrip(s) == IF s # <<>> /\ IsSpace(Head(s)) THEN LStrip(Tail(s)) ELSE s

RECURSIVE RStrip(_)
RStrip(s) ==
    IF s # <<>> /\ IsSpace(s[Len(s)]) THEN RStrip(SubSeq(s, 1, Len(s) - 1))
    ELSE s

\* `pat in s`
Contains(s, pat) ==
    \E i \in 1..(Len(s) - Len(pat) + 1) :
        \A j \in 1..Len(pat) : s[i + j - 1] = pat[j]

\* position of the first c in s from position i on, 0 when there is none
RECURSIVE IndexFrom(_, _, _)
IndexFrom(s, c, i) ==
    IF i > Len(s) THEN 0 ELSE IF s[i] = c THEN i ELSE IndexFrom(s, c, i + 1)

IndexOf(s, c) == IndexFrom(s, c, 1)

\* s.split(" ")
RECURSIVE Split(_)
Split(s) ==
    LET i == IndexOf(s, " ")
    IN  IF i = 0 THEN <<s>>
        ELSE <<SubSeq(s, 1, i - 1)>> \o Split(SubSeq(s, i + 1, Len(s)))

\* s[-5:-1]
SliceLast4(s) ==
    LET n == Len(s)
        lo == IF n - 5 > 0 THEN n - 5 ELSE 0
    IN  SubSeq(s, lo + 1, n - 1)

RECURSIVE DigitsValue(_, _, _)
DigitsValue(s, base, acc) ==
    IF s = <<>> THEN acc
    ELSE DigitsValue(Tail(s), base, acc * base + DigitVal(Head(s)))

AllDigits(s, base) == s # <<>> /\ \A i \in 1..Len(s) : DigitVal(s[i]) < base

\* int(v, base) for base 2, 10 and 16: the digits, after the sign and the
\* prefix of the base
intDigits(s, base) ==
    IF AllDigits(s, base) THEN PyInt(DigitsValue(s, base, 0))
    ELSE Raise("ValueError")

intPrefixes(base) ==
    IF base = 16 THEN {<<"0", "x">>, <<"0", "X">>}
    ELSE IF base = 2 THEN {<<"0", "b">>, <<"0", "B">>}
    ELSE {}

intUnsigned(s, base) ==
    intDigits(IF Len(s) >= 2 /\ SubSeq(s, 1, 2) \in intPrefixes(base)
              THEN SubSeq(s, 3, Len(s)) ELSE s,
              base)

intNegated(r) == IF IsRaise(r) THEN r ELSE PyInt(0 - r[2])

intStripped(s, base) ==
    IF s # <<>> /\ Head(s) = "-" THEN intNegated(intUnsigned(Tail(s), base))
    ELSE IF s # <<>> /\ Head(s) = "+" THEN intUnsigned(Tail(s), base)
    ELSE intUnsigned(s, base)

int(v, base) ==
    IF ~IsStr(v) THEN Raise("TypeError")
    ELSE intStripped(RStrip(LStrip(v[2])), base)

RECURSIVE HexDigits(_)
HexDigits(n) ==
    IF n < 16 THEN <<Digits[n + 1]>>
    ELSE HexDigits(n \div 16) \o <<Digits[(n % 16) + 1]>>

\* hex(n)
hex(n) ==
    IF n < 0 THEN <<"-", "0", "x">> \o HexDigits(0 - n)
    ELSE <<"0", "x">> \o HexDigits(n)

\* a & b for b >= 0
RECURSIVE BitAnd(_, _)
BitAnd(a, b) ==
    IF b = 0 THEN 0
    ELSE (a % 2) * (b % 2) + 2 * BitAnd(a \div 2, b \div 2)

(***************************************************************************)
(* datetime.strptime(s, '%H:%M:%S.%f') and strftime('%H:%M:%S.%f')         *)
(***************************************************************************)
\* s up to the first c, and s after it; without a c in s the first is empty
Before(s, c) == SubSeq(s, 1, IndexOf(s, c) - 1)
After(s, c) == SubSeq(s, IndexOf(s, c) + 1, Len(s))

\* the four fields: each has a digit, so a missing separator is an error
strptimeFields(hh, mm, ss, ff) ==
    IF /\ AllDigits(hh, 10) /\ Len(hh) <= 2
       /\ AllDigits(mm, 10) /\ Len(mm) <= 2
       /\ AllDigits(ss, 10) /\ Len(ss) <= 2
       /\ AllDigits(ff, 10) /\ Len(ff) <= 6
       /\ DigitsValue(hh, 10, 0) <= 23
       /\ DigitsValue(mm, 10, 0) <= 59
       /\ DigitsValue(ss, 10, 0) <= 59
    THEN PyDt((DigitsValue(hh, 10, 0) * 60 + DigitsValue(mm, 10, 0)) * 60
                + DigitsValue(ss, 10, 0),
              DigitsValue([i \in 1..6 |-> IF i <= Len(ff) THEN ff[i] ELSE "0"],
                          10, 0))
    ELSE Raise("ValueError")

strptimeSeconds(hh, mm, s) == strptimeFields(hh, mm, Before(s, "."), After(s, "."))
strptimeMinutes(hh, s) == strptimeSeconds(hh, Before(s, ":"), After(s, ":"))
strptime(s) == strptimeMinutes(Before(s, ":"), After(s, ":"))

TwoDigits(n) == <<Digits[(n \div 10) + 1], Digits[(n % 10) + 1]>>

SixDigits(n) ==
    <<Digits[((n \div 100000) % 10) + 1], Digits[((n \div 10000) % 10) + 1],
      Digits[((n \div 1000) % 10) + 1], Digits[((n \div 100) % 10) + 1],
      Digits[((n \div 10) % 10) + 1], Digits[(n % 10) + 1]>>

strftime(d) ==
    TwoDigits(DtHour(d)) \o <<":">> \o TwoDigits((d[2] \div 60) % 60)
        \o <<":">> \o TwoDigits(d[2] % 60) \o <<".">> \o SixDigits(d[3])

\* try: return <r> / except: return NULL
exceptNULL(r) == IF IsRaise(r) THEN NULL ELSE r

\* d.strftime('%H:%M:%S.%f')[:-3]
strftimeMillis(d) ==
    IF IsRaise(d) THEN d ELSE PyStr(SubSeq(strftime(d), 1, Len(strftime(d)) - 3))

\* tryParseDate(date): the time of day as text, cut to milliseconds
tryParseDate(date) == exceptNULL(strftimeMillis(strptime(date)))

\* tryParseDateTime(date): strptime raises TypeError on anything but a str
tryParseDateTime(date) ==
    IF ~IsStr(date) THEN NULL ELSE exceptNULL(strptime(date[2]))

(***************************************************************************)
(* The words the parser looks for                                          *)
(***************************************************************************)
W_send == <<"s", "e", "n", "d">>
L_Type == <<"T", "y", "p", "e", ":">>
L_Size == <<"S", "i", "z", "e", ":">>
L_Src == <<"S", "r", "c", ":">>
L_Dst == <<"D", "s", "t", ":">>
L_Id == <<"I", "d", ":">>
L_Via == <<"V", "i", "a", ":">>
L_Seq_Id == <<"S", "e", "q", "_", "I", "d", ":">>
L_Num == <<"N", "u", "m", ":">>
L_Queue == <<"Q", "u", "e", "u", "e", ":">>
M_WiFiMAC == <<"W", "i", "F", "i", " ", "M", "A", "C">>
M_PacketSend == <<">", " ", "P", "a", "c", "k", "e", "t", " ", "s", "e", "n", "d">>
M_Type100 == <<"T", "y", "p", "e", ":", " ", "1", "0", "0">>
M_Receiving == <<"R", "e", "c", "e", "i", "v", "i", "n", "g", " ", "L", "o", "R", "a", " ", "p", "a", "c", "k", "e", "t">>
M_Packet == <<">", " ", "P", "a", "c", "k", "e", "t", " ">>
M_Error == <<">", " ", "E", ":">>
M_Queue == <<"S", "i", "z", "e", " ", "o", "f", " ", "S", "e", "n", "d", " ", "P", "a", "c", "k", "e", "t", "s", " ", "Q", "u", "e", "u", "e", ":">>

(***************************************************************************)
(* class LineList: the index is 0-based as in the code                     *)
(***************************************************************************)
getIndexDefault(lineList, elem) ==
    IF \E i \in 1..Len(lineList) : lineList[i] = elem
    THEN (CHOOSE i \in 1..Len(lineList) :
              lineList[i] = elem /\ \A j \in 1..(i - 1) : lineList[j] # elem) - 1
    ELSE -1

\* self[index + 1] raises IndexError when elem is the last token: the guard
\* index + 1 <= len(self) lets index + 1 = len(self) through
getNextValue(lineList, elem) ==
    LET index == getIndexDefault(lineList, elem)
    IN  IF index = -1 THEN PyInt(-1)
        ELSE IF index + 1 <= Len(lineList)
        THEN IF index + 1 < Len(lineList) THEN PyStr(lineList[index + 2])
             ELSE Raise("IndexError")
        ELSE PyInt(-1)

\* try: return int(<v>, base) / except: return NULL
tryInt(v, base) == IF IsRaise(v) THEN NULL ELSE exceptNULL(int(v, base))

\* variant: the token as it is in the line, when it is a hex number
tryHex_Raw(v) ==
    IF IsRaise(v) \/ IsRaise(int(v, 16)) THEN NULL ELSE v

hexOf(r) == IF IsRaise(r) THEN r ELSE PyStr(hex(r[2]))

\* try: return hex(int(<v>, base=16)) / except: return NULL
tryHex(v) == IF IsRaise(v) THEN NULL ELSE exceptNULL(hexOf(int(v, 16)))

getNextNum(lineList) == tryInt(getNextValue(lineList, L_Queue), 10)
findIsSend(lineList) == getIndexDefault(lineList, W_send) # -1
findId(lineList) == tryInt(getNextValue(lineList, L_Id), 10)
findType(lineList) == tryInt(getNextValue(lineList, L_Type), 2)
findSize(lineList) == tryInt(getNextValue(lineList, L_Size), 10)
findDst(lineList) == tryHex(getNextValue(lineList, L_Dst))
findSrc(lineList) == tryHex(getNextValue(lineList, L_Src))
findVia(lineList) == tryHex(getNextValue(lineList, L_Via))
findSeqId(lineList) == tryInt(getNextValue(lineList, L_Seq_Id), 10)
findNum(lineList) == tryInt(getNextValue(lineList, L_Num), 10)

(***************************************************************************)
(* Header sizes.  type is the integer bitmask.                             *)
(***************************************************************************)
isDataPacket(type) == BitAnd(type, HELLO_P) # HELLO_P

isControlPacket(type) ==
    ~(BitAnd(type, HELLO_P) = HELLO_P \/ BitAnd(type, DATA_P) = DATA_P)

\* variant: the control size as an alternative to the data size (elif)
extraHeaderSize_Elif(type) ==
    headerPacketSize
        + (IF isDataPacket(type) THEN dataPacketSize
           ELSE IF isControlPacket(type) THEN dataControlPacketSize ELSE 0)

extraHeaderSize(type) ==
    headerPacketSize
        + (IF isDataPacket(type) THEN dataPacketSize ELSE 0)
        + (IF isControlPacket(type) THEN dataControlPacketSize ELSE 0)

(***************************************************************************)
(* class Packet, PacketList, PError: the __dict__ of the object.  isSend   *)
(* is str(isSend), "True" or "False".  via, seq_id and num are attributes  *)
(* only some packets have.                                                 *)
(***************************************************************************)
Packet(id, deviceId, time, type, source, destination, payloadSize, packetSize, isSend) ==
    [id |-> id, deviceId |-> deviceId, time |-> time, type |-> type,
     source |-> source, destination |-> destination,
     payloadSize |-> payloadSize, packetSize |-> packetSize,
     isSend |-> isSend]

addVia(p, via) == p @@ [via |-> via]
addSeq_IdAndNum(p, seq_id, num) == p @@ [seq_id |-> seq_id, num |-> num]

PacketList(id, time, length) == [id |-> id, time |-> time, length |-> length]

PError(deviceId, time) == [deviceId |-> deviceId, time |-> time]

\* print(F"Try parse failed at file {fileName}, line {lineNum}")
printError(fileName, lineNum) ==
    [kind |-> "parse_failed", fileName |-> fileName, lineNum |-> lineNum]

(***************************************************************************)
(* class Node.  txPackets and rxPackets hold the same dict objects as      *)
(* allPackets: they are modelled as lists of positions in allPackets, so   *)
(* that a change of a dict is seen through every list that holds it.       *)
(***************************************************************************)
Node(fileName) ==
    [fileName |-> fileName, address |-> NULL, allPacketsNum |-> 0,
     rxPackets |-> <<>>, txPackets |-> <<>>, allPackets |-> <<>>,
     allErrors |-> <<>>, packetQueueLength |-> <<>>, json |-> FALSE]

addPacketToLists(self, p, isSend) ==
    LET pos == Len(self.allPackets) + 1
    IN  [self EXCEPT
            !.txPackets = IF isSend THEN Append(@, pos) ELSE @,
            !.rxPackets = IF isSend THEN @ ELSE Append(@, pos),
            !.allPackets = Append(@, p)]

\* Packet(...): the object createPacketAndSave constructs from the fields
newPacket(self, lineList, date, typeP, size, isSend) ==
    Packet(findId(lineList), self.address, date, typeP, findSrc(lineList),
           findDst(lineList), PyInt(size[2] - extraHeaderSize(typeP[2])), size,
           IF isSend THEN "True" ELSE "False")

withVia(packet, lineList, typeP) ==
    IF isDataPacket(typeP[2]) THEN addVia(packet, findVia(lineList)) ELSE packet

withSeq_IdAndNum(packet, lineList, typeP) ==
    IF isControlPacket(typeP[2])
    THEN addSeq_IdAndNum(packet, findSeqId(lineList), findNum(lineList))
    ELSE packet

\* `if NULL in (date, typeP)`: the diagnostic, or the packet in the lists
savePacket(self, lineNum, date, typeP, isSend, packet) ==
    IF NULL \in {date, typeP}
    THEN [node |-> self, printed |-> <<printError(self.fileName, lineNum)>>,
          ret |-> FALSE]
    ELSE [node |-> addPacketToLists(self, packet, isSend),
          printed |-> <<>>, ret |-> TRUE]

createFromFields(self, lineList, lineNum, date, typeP, isSend, size) ==
    savePacket(self, lineNum, date, typeP, isSend,
        withSeq_IdAndNum(
            withVia(newPacket(self, lineList, date, typeP, size, isSend),
                    lineList, typeP),
            lineList, typeP))

\* the result is the node, what was printed and the returned value
createPacketAndSave(self, lineList, lineNum) ==
    createFromFields(self, lineList, lineNum, tryParseDate(lineList[1]),
                     findType(lineList), findIsSend(lineList),
                     findSize(lineList))

createErrorAndSave(self, lineList) ==
    [self EXCEPT !.allErrors =
        Append(@, PError(self.address, tryParseDate(lineList[1])))]

newPacketList(packetQueueOrder, date, numToSend) ==
    [sample |-> PacketList(packetQueueOrder, date, numToSend),
     failed |-> NULL \in {date, numToSend}]

\* the sample is appended also when the diagnostic was printed
appendPacketList(self, lineNum, r) ==
    [node |-> [self EXCEPT !.packetQueueLength = Append(@, r.sample)],
     printed |-> IF r.failed THEN <<printError(self.fileName, lineNum)>>
                 ELSE <<>>]

addPacketQueue(self, lineList, packetQueueOrder, lineNum) ==
    appendPacketList(self, lineNum,
        newPacketList(packetQueueOrder, tryParseDate(lineList[1]),
                      getNextNum(lineList)))

\* the three tests of a line that is not "Receiving LoRa packet", in the
\* order of the code; r is the node and what was printed so far
packetPart(self, line, listLine, index) ==
    IF Contains(line, M_Packet)
    THEN createPacketAndSave(self, listLine, index)
    ELSE [node |-> self, printed |-> <<>>, ret |-> FALSE]

errorPart(r, line, listLine) ==
    [node |-> IF Contains(line, M_Error)
              THEN createErrorAndSave(r.node, listLine) ELSE r.node,
     printed |-> r.printed]

queueAppended(r, q, packetQueueOrder) ==
    [node |-> q.node, printed |-> r.printed \o q.printed,
     packetQueueOrder |-> packetQueueOrder + 1]

queuePart(r, line, listLine, index, packetQueueOrder) ==
    IF Contains(line, M_Queue)
    THEN queueAppended(r, addPacketQueue(r.node, listLine, packetQueueOrder,
                                         index),
                       packetQueueOrder)
    ELSE [node |-> r.node, printed |-> r.printed,
          packetQueueOrder |-> packetQueueOrder]

\* the body of the loop of getPackets for one line of the file
getPacketsLine(self, line, index, packetQueueOrder) ==
    IF Contains(line, M_Receiving)
    THEN [node |-> [self EXCEPT !.allPacketsNum = @ + 1],
          printed |-> <<>>, packetQueueOrder |-> packetQueueOrder]
    ELSE queuePart(errorPart(packetPart(self, line, Split(line), index),
                             line, Split(line)),
                   line, Split(line), index, packetQueueOrder)

\* the body of the loop of getAddr for one line: the address found, none
\* found in this line, or the exception of subscripting -1 / of self[index+1]
getAddrLine(line) ==
    IF Contains(line, M_WiFiMAC)
    THEN [found |-> TRUE, address |-> PyStr(SliceLast4(line))]
    ELSE IF Contains(line, M_PacketSend) /\ Contains(line, M_Type100)
    THEN LET v == getNextValue(Split(line), L_Src)
         IN  IF IsStr(v)
             THEN [found |-> TRUE,
                   address |-> PyStr(SubSeq(v[2], 3, Len(v[2])))]
             ELSE IF IsRaise(v) THEN [found |-> FALSE, raised |-> v[2]]
             ELSE [found |-> FALSE, raised |-> "TypeError"]
    ELSE [found |-> FALSE]

(***************************************************************************)
(* Log files.  A file is the sequence of its lines, each line the text     *)
(* with its newline.                                                       *)
(***************************************************************************)
\* 12:00:00.000000 > Packet send Type: 00000010 Size: 20 Src: 0x0A Dst: 0x0B Id: 7\n
LineSendData ==
    <<"1", "2", ":", "0", "0", ":", "0", "0", ".", "0", "0", "0", "0", "0",
      "0", " ", ">", " ", "P", "a", "c", "k", "e", "t", " ", "s", "e", "n",
      "d", " ", "T", "y", "p", "e", ":", " ", "0", "0", "0", "0", "0", "0",
      "1", "0", " ", "S", "i", "z", "e", ":", " ", "2", "0", " ", "S", "r",
      "c", ":", " ", "0", "x", "0", "A", " ", "D", "s", "t", ":", " ", "0",
      "x", "0", "B", " ", "I", "d", ":", " ", "7", "\n">>

\* 12:00:00.000000 > Packet send Size: 20 Src: 0x0A Dst: 0x0B Id: 7\n
LineNoType ==
    <<"1", "2", ":", "0", "0", ":", "0", "0", ".", "0", "0", "0", "0", "0",
      "0", " ", ">", " ", "P", "a", "c", "k", "e", "t", " ", "s", "e", "n",
      "d", " ", "S", "i", "z", "e", ":", " ", "2", "0", " ", "S", "r", "c",
      ":", " ", "0", "x", "0", "A", " ", "D", "s", "t", ":", " ", "0", "x",
      "0", "B", " ", "I", "d", ":", " ", "7", "\n">>

\* > Packet send Type: 00000010 Size: 20 Src: 0x0A Dst: 0x0B Id: 7\n
LineNoTime ==
    <<">", " ", "P", "a", "c", "k", "e", "t", " ", "s", "e", "n", "d", " ",
      "T", "y", "p", "e", ":", " ", "0", "0", "0", "0", "0", "0", "1", "0",
      " ", "S", "i", "z", "e", ":", " ", "2", "0", " ", "S", "r", "c", ":",
      " ", "0", "x", "0", "A", " ", "D", "s", "t", ":", " ", "0", "x", "0",
      "B", " ", "I", "d", ":", " ", "7", "\n">>

\* 12:00:00.000000 > Packet send Type: 2 Size: 20 Src: 0x0A Dst: 0x0B Id: 7\n
LineBadType ==
    <<"1", "2", ":", "0", "0", ":", "0", "0", ".", "0", "0", "0", "0", "0",
      "0", " ", ">", " ", "P", "a", "c", "k", "e", "t", " ", "s", "e", "n",
      "d", " ", "T", "y", "p", "e", ":", " ", "2", " ", "S", "i", "z", "e",
      ":", " ", "2", "0", " ", "S", "r", "c", ":", " ", "0", "x", "0", "A",
      " ", "D", "s", "t", ":", " ", "0", "x", "0", "B", " ", "I", "d", ":",
      " ", "7", "\n">>

\* > Packet send Type: 100 Size: 11\n
LineHintNoSrc ==
    <<">", " ", "P", "a", "c", "k", "e", "t", " ", "s", "e", "n", "d", " ",
      "T", "y", "p", "e", ":", " ", "1", "0", "0", " ", "S", "i", "z", "e",
      ":", " ", "1", "1", "\n">>

\* 12:00:00.000000 > Packet send Type: 100 Size: 11 Src: 0x4E58 Dst: 0xFFFF Id: 1\n
LineHint ==
    <<"1", "2", ":", "0", "0", ":", "0", "0", ".", "0", "0", "0", "0", "0",
      "0", " ", ">", " ", "P", "a", "c", "k", "e", "t", " ", "s", "e", "n",
      "d", " ", "T", "y", "p", "e", ":", " ", "1", "0", "0", " ", "S", "i",
      "z", "e", ":", " ", "1", "1", " ", "S", "r", "c", ":", " ", "0", "x",
      "4", "E", "5", "8", " ", "D", "s", "t", ":", " ", "0", "x", "F", "F",
      "F", "F", " ", "I", "d", ":", " ", "1", "\n">>

\* 12:00:00.000000 > WiFi MAC: 4E58\n
LineMAC ==
    <<"1", "2", ":", "0", "0", ":", "0", "0", ".", "0", "0", "0", "0", "0",
      "0", " ", ">", " ", "W", "i", "F", "i", " ", "M", "A", "C", ":", " ",
      "4", "E", "5", "8", "\n">>

\* 12:00:01.000000 > E: fail\n
LineError ==
    <<"1", "2", ":", "0", "0", ":", "0", "1", ".", "0", "0", "0", "0", "0",
      "0", " ", ">", " ", "E", ":", " ", "f", "a", "i", "l", "\n">>

\* 12:00:00.000000 > Receiving LoRa packet\n
LineReceiving ==
    <<"1", "2", ":", "0", "0", ":", "0", "0", ".", "0", "0", "0", "0", "0",
      "0", " ", ">", " ", "R", "e", "c", "e", "i", "v", "i", "n", "g", " ",
      "L", "o", "R", "a", " ", "p", "a", "c", "k", "e", "t", "\n">>

\* 10:00:00.000000 > Size of Send Packets Queue: 3\n
LineQueue1000 ==
    <<"1", "0", ":", "0", "0", ":", "0", "0", ".", "0", "0", "0", "0", "0",
      "0", " ", ">", " ", "S", "i", "z", "e", " ", "o", "f", " ", "S", "e",
      "n", "d", " ", "P", "a", "c", "k", "e", "t", "s", " ", "Q", "u", "e",
      "u", "e", ":", " ", "3", "\n">>

\* 23:59:58.000000 > Size of Send Packets Queue: 4\n
LineQueue2359 ==
    <<"2", "3", ":", "5", "9", ":", "5", "8", ".", "0", "0", "0", "0", "0",
      "0", " ", ">", " ", "S", "i", "z", "e", " ", "o", "f", " ", "S", "e",
      "n", "d", " ", "P", "a", "c", "k", "e", "t", "s", " ", "Q", "u", "e",
      "u", "e", ":", " ", "4", "\n">>

\* 00:00:02.000000 > Size of Send Packets Queue: 5\n
LineQueue0000 ==
    <<"0", "0", ":", "0", "0", ":", "0", "2", ".", "0", "0", "0", "0", "0",
      "0", " ", ">", " ", "S", "i", "z", "e", " ", "o", "f", " ", "S", "e",
      "n", "d", " ", "P", "a", "c", "k", "e", "t", "s", " ", "Q", "u", "e",
      "u", "e", ":", " ", "5", "\n">>

\* 12:00:00.000000 > Packet send Type: 00000010 Size: 20 Src: 0x0B Dst: 0x0A Id: 7\n
LineSend2 ==
    <<"1", "2", ":", "0", "0", ":", "0", "0", ".", "0", "0", "0", "0", "0",
      "0", " ", ">", " ", "P", "a", "c", "k", "e", "t", " ", "s", "e", "n",
      "d", " ", "T", "y", "p", "e", ":", " ", "0", "0", "0", "0", "0", "0",
      "1", "0", " ", "S", "i", "z", "e", ":", " ", "2", "0", " ", "S", "r",
      "c", ":", " ", "0", "x", "0", "B", " ", "D", "s", "t", ":", " ", "0",
      "x", "0", "A", " ", "I", "d", ":", " ", "7", "\n">>

\* 12:00:00.000100 > Packet received Type: 00000010 Size: 20 Src: 0x0A Dst: 0x0B Id: 7\n
LineRecv ==
    <<"1", "2", ":", "0", "0", ":", "0", "0", ".", "0", "0", "0", "1", "0",
      "0", " ", ">", " ", "P", "a", "c", "k", "e", "t", " ", "r", "e", "c",
      "e", "i", "v", "e", "d", " ", "T", "y", "p", "e", ":", " ", "0", "0",
      "0", "0", "0", "0", "1", "0", " ", "S", "i", "z", "e", ":", " ", "2",
      "0", " ", "S", "r", "c", ":", " ", "0", "x", "0", "A", " ", "D", "s",
      "t", ":", " ", "0", "x", "0", "B", " ", "I", "d", ":", " ", "7",
      "\n">>

\* 12:00:05.000000 > Packet received Type: 00001010 Size: 25 Src: 0x0A Dst: 0x0C Id: 7\n
LineRecvLate ==
    <<"1", "2", ":", "0", "0", ":", "0", "5", ".", "0", "0", "0", "0", "0",
      "0", " ", ">", " ", "P", "a", "c", "k", "e", "t", " ", "r", "e", "c",
      "e", "i", "v", "e", "d", " ", "T", "y", "p", "e", ":", " ", "0", "0",
      "0", "0", "1", "0", "1", "0", " ", "S", "i", "z", "e", ":", " ", "2",
      "5", " ", "S", "r", "c", ":", " ", "0", "x", "0", "A", " ", "D", "s",
      "t", ":", " ", "0", "x", "0", "C", " ", "I", "d", ":", " ", "7",
      "\n">>

\* 12:00:00.000100 > Packet received Type: 00000010 Size: 20 Src: 0x0A Dst: 0x0B Id: 9\n
LineRecvOtherId ==
    <<"1", "2", ":", "0", "0", ":", "0", "0", ".", "0", "0", "0", "1", "0",
      "0", " ", ">", " ", "P", "a", "c", "k", "e", "t", " ", "r", "e", "c",
      "e", "i", "v", "e", "d", " ", "T", "y", "p", "e", ":", " ", "0", "0",
      "0", "0", "0", "0", "1", "0", " ", "S", "i", "z", "e", ":", " ", "2",
      "0", " ", "S", "r", "c", ":", " ", "0", "x", "0", "A", " ", "D", "s",
      "t", ":", " ", "0", "x", "0", "B", " ", "I", "d", ":", " ", "9",
      "\n">>

\* 12:00:00.000000 > Packet 
T_Prefix ==
    <<"1", "2", ":", "0", "0", ":", "0", "0", ".", "0", "0", "0", "0", "0",
      "0", " ", ">", " ", "P", "a", "c", "k", "e", "t", " ">>

\*  Type: 
T_Type ==
    <<" ", "T", "y", "p", "e", ":", " ">>

\*  Size: 
T_Size ==
    <<" ", "S", "i", "z", "e", ":", " ">>

\*  Src: 0x0A Dst: 0x0B Id: 7 Via: 0x0C Seq_Id: 1 Num: 2\n
T_Rest ==
    <<" ", "S", "r", "c", ":", " ", "0", "x", "0", "A", " ", "D", "s", "t",
      ":", " ", "0", "x", "0", "B", " ", "I", "d", ":", " ", "7", " ", "V",
      "i", "a", ":", " ", "0", "x", "0", "C", " ", "S", "e", "q", "_", "I",
      "d", ":", " ", "1", " ", "N", "u", "m", ":", " ", "2", "\n">>

\* received
W_received ==
    <<"r", "e", "c", "e", "i", "v", "e", "d">>


\* 12:00:00.000000 > WiFi MAC: 
T_MAC ==
    <<"1", "2", ":", "0", "0", ":", "0", "0", ".", "0", "0", "0", "0", "0",
      "0", " ", ">", " ", "W", "i", "F", "i", " ", "M", "A", "C", ":", " ">>

RECURSIVE BinDigits(_, _)
BinDigits(n, width) ==
    IF width = 0 /\ n = 0 THEN <<>>
    ELSE BinDigits(n \div 2, IF width > 0 THEN width - 1 ELSE 0)
             \o <<Digits[(n % 2) + 1]>>

RECURSIVE DecDigits(_)
DecDigits(n) ==
    IF n < 10 THEN <<Digits[n + 1]>>
    ELSE DecDigits(n \div 10) \o <<Digits[(n % 10) + 1]>>

\* a packet line of the given direction, type bitmask and size
TypeLine(dir, type, size) ==
    T_Prefix \o dir \o T_Type \o BinDigits(type, 8) \o T_Size
        \o DecDigits(size) \o T_Rest

\* 11:59:59.000100 > Packet received Type: 00000010 Size: 20 Src: 0x0A Dst: 0x0B Id: 7\n
LineRecvEarly ==
    <<"1", "1", ":", "5", "9", ":", "5", "9">>
        \o SubSeq(LineRecv, 9, Len(LineRecv))

\* the line that announces the address of node n
MACLine(n) == T_MAC \o <<"0", "0", "0", Digits[n + 1], "\n">>

MaxLines == 2
MaxType == 127
MaxReceipts == 2
NumNodes == 3

BoundedSeq(S, n) == UNION {[1..k -> S] : k \in 0..n}

IngestLines ==
    {LineSendData, LineNoType, LineNoTime, LineBadType, LineHintNoSrc,
     LineHint, LineMAC, LineError, LineReceiving, LineRecv, LineSend2,
     LineQueue1000, LineQueue2359, LineQueue0000, LineRecvEarly,
     MACLine(2)}

\* what the other nodes log of the packet the first node sends
ReceiveLines == {LineRecv, LineRecvLate, LineRecvOtherId}

TypeLineSizes == {5, 20}

\* the file of the second node of the first two families
PeerFile == <<LineMAC, LineSendData>>

\* one node reads any file of at most MaxLines lines, next to a peer
IngestFiles == {<<f, PeerFile>> : f \in BoundedSeq(IngestLines, MaxLines)}

\* one node reads one packet line, of any type bitmask
TypeFiles ==
    {<<<<TypeLine(dir, type, size)>>, PeerFile>> :
        dir \in {W_send, W_received}, type \in 0..MaxType,
        size \in TypeLineSizes}

\* one node reads three lines, announcements of its address and events
AddressLines == {LineMAC, MACLine(2), LineHint, LineSendData, LineError}

AddressFiles == {<<f, PeerFile>> : f \in [1..3 -> AddressLines]}

RECURSIVE FileOf(_, _, _)
FileOf(events, owner, n) ==
    IF events = <<>> THEN <<>>
    ELSE (IF Head(owner) = n THEN <<Head(events)>> ELSE <<>>)
             \o FileOf(Tail(events), Tail(owner), n)

\* up to NumNodes nodes announce their address; the first logs the packet
\* it sends, and the others log at most MaxReceipts receptions between them
NetworkFiles ==
    UNION {UNION {{[n \in 1..k |->
                       IF n = 1 THEN <<MACLine(1), LineSendData>>
                       ELSE <<MACLine(n)>> \o FileOf(events, owner, n)] :
                      owner \in [1..Len(events) -> 2..k]} :
                  events \in BoundedSeq(ReceiveLines, MaxReceipts)} :
           k \in 0..NumNodes}

(***************************************************************************)
(* The program                                                             *)
(***************************************************************************)
VARIABLES
    files,            \* the log files on disk, by file name
    nodes,            \* the global list nodes
    threads,          \* the global list threads: the state of each Thread
    pc,               \* where the main program is
    cur,              \* the node of the loop `for node in nodes`
    lineNum,          \* lines of the file of that node already read
    packetQueueOrder, \* the local variable of getPackets
    joined,           \* threads joined so far
    stdout,           \* what has been printed
    csv,              \* the rows written by saveCv
    plot,             \* what showPlot has drawn for each sent packet
    queuePlot,        \* the points plotPacketSendQueue has drawn
    exc               \* the unhandled exception, if any

vars == <<files, nodes, threads, pc, cur, lineNum, packetQueueOrder, joined,
          stdout, csv, plot, queuePlot, exc>>

NoException == [type |-> "none", where |-> "none"]

\* init(), then the print of the number of nodes
Init ==
    /\ files \in IngestFiles \cup TypeFiles \cup NetworkFiles
                   \cup AddressFiles
    /\ nodes = [i \in 1..Len(files) |-> Node(i)]
    /\ threads = <<>>
    /\ pc = "for"
    /\ cur = 1
    /\ lineNum = 0
    /\ packetQueueOrder = 0
    /\ joined = 0
    /\ stdout = <<[kind |-> "number_of_nodes", numberOfNodes |-> Len(files)]>>
    /\ csv = <<>>
    /\ plot = <<>>
    /\ queuePlot = <<>>
    /\ exc = NoException

RECURSIVE Flatten(_)
Flatten(ss) == IF ss = <<>> THEN <<>> ELSE Head(ss) \o Flatten(Tail(ss))

\* [allPackets.extend(node.allPackets) for node in nodes], and the same for
\* rxPackets and txPackets
AllPackets(ns) == Flatten([i \in 1..Len(ns) |-> ns[i].allPackets])

AllPacketsReceived(ns) ==
    Flatten([i \in 1..Len(ns) |->
                [j \in 1..Len(ns[i].rxPackets) |->
                    ns[i].allPackets[ns[i].rxPackets[j]]]])

AllPacketsSended(ns) ==
    Flatten([i \in 1..Len(ns) |->
                [j \in 1..Len(ns[i].txPackets) |->
                    ns[i].allPackets[ns[i].txPackets[j]]]])

RECURSIVE SumPacketSize(_)
SumPacketSize(packets) ==
    IF packets = <<>> THEN 0
    ELSE Head(packets).packetSize[2] + SumPacketSize(Tail(packets))

IsType2(packet) == packet.type = PyInt(2)

\* variant: the sender counted among the receivers
maxPossibleRx_AllNodes(count, numberOfNodes) == count * numberOfNodes

\* what every node but the sender would receive of `count` sent
maxPossibleRx(count, numberOfNodes) == count * (numberOfNodes - 1)

\* variant: the share of the packets that were lost
lossPercent_Lost(received, possible) ==
    [num |-> (possible - received) * 100, den |-> possible]

\* (received / possible - 1) * 100 as the fraction num / den, for possible
\* other than 0
lossPercent(received, possible) ==
    [num |-> (received - possible) * 100, den |-> possible]

(***************************************************************************)
(* printGeneralInfo: what it prints, and the exception that ends it.  The  *)
(* elapsed time is printed first (its text is not modelled); max() of no   *)
(* times raises ValueError.  A percentage (a / b - 1) * 100 is kept as the *)
(* fraction num / den; b = 0 raises ZeroDivisionError while the print call *)
(* evaluates its argument, after the two prints before it.                 *)
(***************************************************************************)
printGeneralInfo(ns) ==
    LET numberOfNodes == Len(ns)
        allPackets == AllPackets(ns)
        allPacketsReceived == AllPacketsReceived(ns)
        allPacketsSended == AllPacketsSended(ns)
        num_all_sent == Len(allPacketsSended)
        num_all_received == Len(allPacketsReceived)
        sizeOfAllSentInBytes == SumPacketSize(allPacketsSended)
        sizeOfAllReceivedInBytes == SumPacketSize(allPacketsReceived)
        sizeOfAllSentDataInBytes ==
            SumPacketSize(SelectSeq(allPacketsSended, IsType2))
        sizeOfAllReceivedDataInBytes ==
            SumPacketSize(SelectSeq(allPacketsReceived, IsType2))
        numAllPacketsRx == maxPossibleRx(num_all_sent, numberOfNodes)
        lostPackets == numAllPacketsRx - num_all_received
        allBytesRx == maxPossibleRx(sizeOfAllSentInBytes, numberOfNodes)
        lostBytes == allBytesRx - sizeOfAllReceivedInBytes
        allBytesDataRx ==
            maxPossibleRx(sizeOfAllSentDataInBytes, numberOfNodes)
        lostDataBytes == allBytesDataRx - sizeOfAllReceivedDataInBytes
        counts ==
            <<[kind |-> "time_lapsed"],
              [kind |-> "packets", sent |-> num_all_sent,
               maxPossible |-> numAllPacketsRx, actual |-> num_all_received,
               loss |-> lostPackets],
              [kind |-> "bytes", sent |-> sizeOfAllSentInBytes,
               maxPossible |-> allBytesRx,
               actual |-> sizeOfAllReceivedInBytes, loss |-> lostBytes]>>
        totalLoss ==
            [kind |-> "total_loss",
             num |-> lossPercent(num_all_received, numAllPacketsRx).num,
             den |-> lossPercent(num_all_received, numAllPacketsRx).den]
        dataBytes ==
            [kind |-> "data_bytes", sent |-> sizeOfAllSentDataInBytes,
             maxPossible |-> allBytesDataRx,
             actual |-> sizeOfAllReceivedDataInBytes, loss |-> lostDataBytes,
             num |-> lossPercent(sizeOfAllReceivedDataInBytes,
                                 allBytesDataRx).num,
             den |-> lossPercent(sizeOfAllReceivedDataInBytes,
                                 allBytesDataRx).den]
    IN  IF allPackets = <<>>
        THEN [printed |-> <<>>, raised |-> "ValueError"]
        ELSE IF numAllPacketsRx = 0
        THEN [printed |-> counts, raised |-> "ZeroDivisionError"]
        ELSE IF allBytesDataRx = 0
        THEN [printed |-> Append(counts, totalLoss), raised |-> "none"]
        ELSE [printed |-> counts \o <<totalLoss, dataBytes>>,
              raised |-> "none"]

(***************************************************************************)
(* showPlot.  A packet of the merged list is the dict object, named by its *)
(* node and its position in the allPackets of the node, with its content.  *)
(***************************************************************************)
\* variant: the 15 microseconds of previousTime taken from the stored time
ParseTimes_Shifted(dicts) ==
    [j \in 1..Len(dicts) |->
        [dicts[j] EXCEPT !.time =
            LET t == tryParseDateTime(dicts[j].time)
            IN  IF IsDt(t) THEN DtAddMicros(t, -15) ELSE t]]

ParseTimes(dicts) ==
    [j \in 1..Len(dicts) |->
        [dicts[j] EXCEPT !.time = tryParseDateTime(dicts[j].time)]]

MergedPackets(ns) ==
    Flatten([i \in 1..Len(ns) |->
                [j \in 1..Len(ns[i].allPackets) |->
                    [ref |-> <<i, j>>, p |-> ns[i].allPackets[j]]]])

\* list.sort(key=lambda x: x["time"]) is stable
RECURSIVE Insert(_, _)
Insert(sorted, x) ==
    IF sorted = <<>> THEN <<x>>
    ELSE IF DtLE(sorted[Len(sorted)].p.time, x.p.time) THEN Append(sorted, x)
    ELSE Append(Insert(SubSeq(sorted, 1, Len(sorted) - 1), x),
                sorted[Len(sorted)])

RECURSIVE SortByTime(_)
SortByTime(packets) ==
    IF packets = <<>> THEN <<>>
    ELSE Insert(SortByTime(SubSeq(packets, 1, Len(packets) - 1)),
                packets[Len(packets)])

IsSendPacket(x) == x.p.isSend = "True"
IsReceivedPacket(x) == x.p.isSend = "False"

\* variants: the type compared too; the source compared alone
SamePacket_WithType(packet, packetI) ==
    /\ packet.p.id = packetI.p.id
    /\ packet.p.source = packetI.p.source
    /\ packet.p.type = packetI.p.type

SamePacket_SourceOnly(packet, packetI) == packet.p.source = packetI.p.source

\* the test that decides whether packetI is a receipt of packet
SamePacket(packet, packetI) ==
    packet.p.id = packetI.p.id /\ packet.p.source = packetI.p.source

\* variant: the time of the receipt between previousTime and maxTime
InWindow_Between(previousTime, time) ==
    DtLE(previousTime, time) /\ DtLE(time, DtAddMicros(previousTime, 100))

\* the window test of the inner loop
InWindow(previousTime, time) ==
    DtLE(previousTime, time) \/ DtLE(time, DtAddMicros(previousTime, 100))

\* variant: the loop left at the first packet that is no receipt
RECURSIVE receivedLoop_Break(_, _, _)
receivedLoop_Break(packet, receivedPackets, st) ==
    IF receivedPackets = <<>> THEN st
    ELSE LET packetI == Head(receivedPackets)
         IN  IF SamePacket(packet, packetI)
             THEN receivedLoop_Break(packet, Tail(receivedPackets),
                      [st EXCEPT !.numReceiveds = @ + 1,
                                 !.margin = @ + 1,
                                 !.receipts = Append(@, [ref |-> packetI.ref,
                                                         margin |-> st.margin + 1])])
             ELSE st

\* `for packetI in receivedPackets` for one sent packet; st holds
\* previousTime, margin, numReceiveds and the receipts drawn
RECURSIVE receivedLoop(_, _, _)
receivedLoop(packet, receivedPackets, st) ==
    IF receivedPackets = <<>> THEN st
    ELSE LET packetI == Head(receivedPackets)
             inWindow == InWindow(st.previousTime, packetI.p.time)
             margin == IF inWindow THEN st.margin + 1 ELSE 0
             st1 == IF SamePacket(packet, packetI)
                    THEN [previousTime |-> IF inWindow THEN st.previousTime
                                           ELSE packetI.p.time,
                          margin |-> margin,
                          numReceiveds |-> st.numReceiveds + 1,
                          receipts |-> Append(st.receipts,
                                              [ref |-> packetI.ref,
                                               margin |-> margin])]
                    ELSE st
         IN  receivedLoop(packet, Tail(receivedPackets), st1)

\* `for index, packet in enumerate(sendPackets)`, from index on.  The label
\* of a sent packet is "SId: " + packet["deviceId"] + ..., which raises
\* TypeError when the address of the node is still the integer 0; the
\* receipts of that packet have been drawn by then.
RECURSIVE sendLoop(_, _, _, _)
sendLoop(sendPackets, receivedPackets, index, drawn) ==
    IF index > Len(sendPackets) THEN [plot |-> drawn, raised |-> "none"]
    ELSE LET packet == sendPackets[index]
             st == receivedLoop(packet, receivedPackets,
                       [previousTime |-> DtAddMicros(packet.p.time, -15),
                        margin |-> 0, numReceiveds |-> 0, receipts |-> <<>>])
             entry == [send |-> packet.ref, numReceiveds |-> st.numReceiveds,
                       receipts |-> st.receipts,
                       previousTime |-> st.previousTime,
                       margin |-> st.margin,
                       labelled |-> IsStr(packet.p.deviceId)]
         IN  IF ~IsStr(packet.p.deviceId)
             THEN [plot |-> Append(drawn, entry), raised |-> "TypeError"]
             ELSE sendLoop(sendPackets, receivedPackets, index + 1,
                           Append(drawn, entry))

\* the sort, the two filters and the loop over the sent packets
Correlation(allPackets) ==
    LET sorted == SortByTime(allPackets)
        sendPackets == SelectSeq(sorted, IsSendPacket)
        receivedPackets == SelectSeq(sorted, IsReceivedPacket)
    IN  sendLoop(sendPackets, receivedPackets, 1, <<>>)

\* the errors part: an error whose time is NULL cannot be ordered against a
\* datetime nor added to a timedelta, and the label "SId: " + deviceId needs
\* a str; both raise TypeError
errorsRaise(allErrors) ==
    \E k \in 1..Len(allErrors) :
        ~IsDt(allErrors[k].time) \/ ~IsStr(allErrors[k].deviceId)

\* packet["time"] = tryParseDateTime(packet["time"]) for the packets of
\* every node, and the same for the errors
packetTimes(ns) ==
    [i \in 1..Len(ns) |-> [ns[i] EXCEPT !.allPackets = ParseTimes(@)]]

errorTimes(ns) ==
    [i \in 1..Len(ns) |-> [ns[i] EXCEPT !.allErrors = ParseTimes(@)]]

AllErrors(ns) == Flatten([i \in 1..Len(ns) |-> ns[i].allErrors])

\* the errors part, reached when the loop over the sent packets ended
plotErrors(ns, r) ==
    [nodes |-> ns, plot |-> r.plot,
     raised |-> IF errorsRaise(AllErrors(ns)) THEN "TypeError" ELSE "none"]

plotPackets(ns, r) ==
    IF r.raised # "none"
    THEN [nodes |-> ns, plot |-> r.plot, raised |-> r.raised]
    ELSE plotErrors(errorTimes(ns), r)

\* the nodes with the times of packets and errors replaced, what was drawn
\* for the sent packets, and the exception
showPlot(ns) ==
    plotPackets(packetTimes(ns), Correlation(MergedPackets(packetTimes(ns))))

(***************************************************************************)
(* plotPacketSendQueue                                                     *)
(***************************************************************************)
QueueCutoff == PyDt(21 * 3600 + 25 * 60, 0)

\* one sample: time is its parsed time and prevTime the value of prevTime
\* after `if prevTime == "": prevTime = queueEl.time`.  st holds dateDay,
\* prevTime, the samples gone through (changed), the points drawn and the
\* exception
queueSample(queueEl, time, prevTime, st) ==
    IF ~IsDt(time)
    THEN [st EXCEPT !.prevTime = prevTime,
                    !.done = Append(@, [queueEl EXCEPT !.time = time]),
                    !.raised = "TypeError"]
    ELSE IF DtLT(QueueCutoff, time)
    THEN [st EXCEPT !.prevTime = prevTime,
                    !.done = Append(@, [queueEl EXCEPT !.time = time])]
    ELSE IF DtHour(time) = 0 /\ ~IsDt(prevTime)
    THEN [st EXCEPT !.prevTime = prevTime,
                    !.done = Append(@, [queueEl EXCEPT !.time = time]),
                    !.raised = "AttributeError"]
    ELSE IF DtHour(time) = 0 /\ DtHour(prevTime) = 23
    THEN [dateDay |-> st.dateDay + 1,
          prevTime |-> DtAddDays(time, st.dateDay + 1),
          done |-> Append(st.done,
                          [queueEl EXCEPT
                              !.time = DtAddDays(time, st.dateDay + 1)]),
          points |-> Append(st.points,
                            [time |-> DtAddDays(time, st.dateDay + 1),
                             length |-> queueEl.length]),
          raised |-> "none"]
    ELSE [dateDay |-> st.dateDay,
          prevTime |-> DtAddDays(time, st.dateDay),
          done |-> Append(st.done,
                          [queueEl EXCEPT !.time = DtAddDays(time, st.dateDay)]),
          points |-> Append(st.points,
                            [time |-> DtAddDays(time, st.dateDay),
                             length |-> queueEl.length]),
          raised |-> "none"]

\* `for queueEl in node.packetQueueLength`
RECURSIVE queueLoop(_, _)
queueLoop(queue, st) ==
    IF queue = <<>> \/ st.raised # "none"
    THEN [st EXCEPT !.done = @ \o queue]
    ELSE queueLoop(Tail(queue),
             queueSample(Head(queue), tryParseDateTime(Head(queue).time),
                         IF st.prevTime = PyStr(<<>>) THEN Head(queue).time
                         ELSE st.prevTime,
                         st))

\* `for node in nodes`, from node i on; st is the end of the loop over the
\* samples of node i
RECURSIVE plotPacketSendQueue(_, _, _)
plotNodeQueue(ns, i, points, st) ==
    IF st.raised # "none"
    THEN [nodes |-> [ns EXCEPT ![i].packetQueueLength = st.done],
          points |-> Append(points, st.points), raised |-> st.raised]
    ELSE plotPacketSendQueue([ns EXCEPT ![i].packetQueueLength = st.done],
                             i + 1, Append(points, st.points))

plotPacketSendQueue(ns, i, points) ==
    IF i > Len(ns) THEN [nodes |-> ns, points |-> points, raised |-> "none"]
    ELSE plotNodeQueue(ns, i, points,
             queueLoop(ns[i].packetQueueLength,
                       [dateDay |-> 0, prevTime |-> PyStr(<<>>),
                        done |-> <<>>, points |-> <<>>, raised |-> "none"]))

(***************************************************************************)
(* The main program.  getInformation() is called by the main thread while  *)
(* the arguments of threading.Thread are evaluated, and the Thread gets    *)
(* its result, None, as target: the thread that is started runs nothing.   *)
(***************************************************************************)
FileOfNode(i) == files[nodes[i].fileName]

\* variant: the loop ended before the last node
ForNode_SkipLast ==
    /\ pc = "for"
    /\ pc' = IF cur < Len(nodes) THEN "getAddr" ELSE "join"
    /\ lineNum' = 0
    /\ UNCHANGED <<files, nodes, threads, cur, packetQueueOrder, joined,
                   stdout, csv, plot, queuePlot, exc>>

\* `for node in nodes`: the next node, or the end of the loop
ForNode ==
    /\ pc = "for"
    /\ pc' = IF cur <= Len(nodes) THEN "getAddr" ELSE "join"
    /\ lineNum' = 0
    /\ UNCHANGED <<files, nodes, threads, cur, packetQueueOrder, joined,
                   stdout, csv, plot, queuePlot, exc>>

\* variant: getAddr reads on after a line that gave an address
GetAddrLine_NoReturn ==
    /\ pc = "getAddr"
    /\ lineNum < Len(FileOfNode(cur))
    /\ \E r \in {getAddrLine(FileOfNode(cur)[lineNum + 1])} :
           IF r.found
           THEN /\ nodes' = [nodes EXCEPT ![cur].address = r.address]
                /\ lineNum' = lineNum + 1
                /\ UNCHANGED <<pc, exc>>
           ELSE IF "raised" \in DOMAIN r
           THEN /\ pc' = "crashed"
                /\ exc' = [type |-> r.raised, where |-> "getAddr"]
                /\ UNCHANGED <<nodes, lineNum>>
           ELSE /\ lineNum' = lineNum + 1
                /\ UNCHANGED <<nodes, pc, exc>>
    /\ packetQueueOrder' = 0
    /\ UNCHANGED <<files, threads, cur, joined, stdout, csv, plot, queuePlot>>

\* getAddr reads one line.  An exception here is raised outside the try
\* statement of the main program.
GetAddrLine ==
    /\ pc = "getAddr"
    /\ lineNum < Len(FileOfNode(cur))
    /\ \E r \in {getAddrLine(FileOfNode(cur)[lineNum + 1])} :
           IF r.found
           THEN /\ nodes' = [nodes EXCEPT ![cur].address = r.address]
                /\ pc' = "getPackets"
                /\ lineNum' = 0
                /\ exc' = exc
           ELSE IF "raised" \in DOMAIN r
           THEN /\ pc' = "crashed"
                /\ exc' = [type |-> r.raised, where |-> "getAddr"]
                /\ UNCHANGED <<nodes, lineNum>>
           ELSE /\ lineNum' = lineNum + 1
                /\ UNCHANGED <<nodes, pc, exc>>
    /\ packetQueueOrder' = 0
    /\ UNCHANGED <<files, threads, cur, joined, stdout, csv, plot, queuePlot>>

\* getAddr reaches the end of the file without an address
GetAddrEOF ==
    /\ pc = "getAddr"
    /\ lineNum = Len(FileOfNode(cur))
    /\ pc' = "getPackets"
    /\ lineNum' = 0
    /\ packetQueueOrder' = 0
    /\ UNCHANGED <<files, nodes, threads, cur, joined, stdout, csv, plot,
                   queuePlot, exc>>

\* getPackets reads one line; lineNum is the index of enumerate
GetPacketsLine ==
    /\ pc = "getPackets"
    /\ lineNum < Len(FileOfNode(cur))
    /\ \E r \in {getPacketsLine(nodes[cur], FileOfNode(cur)[lineNum + 1],
                               lineNum, packetQueueOrder)} :
           /\ nodes' = [nodes EXCEPT ![cur] = r.node]
           /\ stdout' = stdout \o r.printed
           /\ packetQueueOrder' = r.packetQueueOrder
    /\ lineNum' = lineNum + 1
    /\ UNCHANGED <<files, threads, pc, cur, joined, csv, plot, queuePlot, exc>>

\* the end of getPackets, setJSON, and the Thread created with target None,
\* started and appended to threads
GetPacketsEOF ==
    /\ pc = "getPackets"
    /\ lineNum = Len(FileOfNode(cur))
    /\ nodes' = [nodes EXCEPT ![cur].json = TRUE]
    /\ threads' = Append(threads, "started")
    /\ cur' = cur + 1
    /\ pc' = "for"
    /\ UNCHANGED <<files, lineNum, packetQueueOrder, joined, stdout, csv,
                   plot, queuePlot, exc>>

\* a started thread runs: with no target it ends at once
ThreadRun(i) ==
    /\ threads[i] = "started"
    /\ threads' = [threads EXCEPT ![i] = "stopped"]
    /\ UNCHANGED <<files, nodes, pc, cur, lineNum, packetQueueOrder, joined,
                   stdout, csv, plot, queuePlot, exc>>

\* trs.join() returns for the next thread of the list
Join ==
    /\ pc = "join"
    /\ joined < Len(threads)
    /\ threads[joined + 1] = "stopped"
    /\ joined' = joined + 1
    /\ UNCHANGED <<files, nodes, threads, pc, cur, lineNum, packetQueueOrder,
                   stdout, csv, plot, queuePlot, exc>>

\* saveCv, once every thread is joined
SaveCv ==
    /\ pc = "join"
    /\ joined = Len(threads)
    /\ csv' = AllPackets(nodes)
    /\ pc' = "printGeneralInfo"
    /\ UNCHANGED <<files, nodes, threads, cur, lineNum, packetQueueOrder,
                   joined, stdout, plot, queuePlot, exc>>

\* an exception inside the try statement: `finally` prints done, and the
\* exception ends the program
Raised(printed, type, where) ==
    /\ stdout' = stdout \o printed \o <<[kind |-> "done"]>>
    /\ pc' = "crashed"
    /\ exc' = [type |-> type, where |-> where]

PrintGeneralInfo ==
    /\ pc = "printGeneralInfo"
    /\ \E r \in {printGeneralInfo(nodes)} :
           IF r.raised # "none"
           THEN Raised(r.printed, r.raised, "printGeneralInfo")
           ELSE /\ stdout' = stdout \o r.printed
                /\ pc' = "showPlot"
                /\ exc' = exc
    /\ UNCHANGED <<files, nodes, threads, cur, lineNum, packetQueueOrder,
                   joined, csv, plot, queuePlot>>

ShowPlot ==
    /\ pc = "showPlot"
    /\ \E r \in {showPlot(nodes)} :
           /\ nodes' = r.nodes
           /\ plot' = r.plot
           /\ IF r.raised # "none" THEN Raised(<<>>, r.raised, "showPlot")
              ELSE /\ pc' = "plotPacketSendQueue"
                   /\ UNCHANGED <<stdout, exc>>
    /\ UNCHANGED <<files, threads, cur, lineNum, packetQueueOrder, joined,
                   csv, queuePlot>>

PlotPacketSendQueue ==
    /\ pc = "plotPacketSendQueue"
    /\ \E r \in {plotPacketSendQueue(nodes, 1, <<>>)} :
           /\ nodes' = r.nodes
           /\ queuePlot' = r.points
           /\ IF r.raised # "none"
              THEN Raised(<<>>, r.raised, "plotPacketSendQueue")
              ELSE /\ pc' = "sleep"
                   /\ UNCHANGED <<stdout, exc>>
    /\ UNCHANGED <<files, threads, cur, lineNum, packetQueueOrder, joined,
                   csv, plot>>

\* `while True: time.sleep(1)` is left by KeyboardInterrupt only
KeyboardInterrupt ==
    /\ pc = "sleep"
    /\ pc' = "done"
    /\ stdout' = Append(stdout, [kind |-> "done"])
    /\ UNCHANGED <<files, nodes, threads, cur, lineNum, packetQueueOrder,
                   joined, csv, plot, queuePlot, exc>>

Next ==
    \/ ForNode
    \/ GetAddrLine
    \/ GetAddrEOF
    \/ GetPacketsLine
    \/ GetPacketsEOF
    \/ \E i \in 1..Len(threads) : ThreadRun(i)
    \/ Join
    \/ SaveCv
    \/ PrintGeneralInfo
    \/ ShowPlot
    \/ PlotPacketSendQueue
    \/ KeyboardInterrupt

Spec == Init /\ [][Next]_vars

(***************************************************************************)
(* Properties                                                              *)
(***************************************************************************)
Range(s) == {s[i] : i \in 1..Len(s)}

StoredPackets ==
    UNION {Range(nodes[i].allPackets) : i \in 1..Len(nodes)}

\* the header overhead as the bits of the type give it: 6, plus 2 when the
\* HELLO bit (4) is clear, plus 3 when the HELLO bit and the DATA bit (2)
\* are both clear
HeaderOverhead(type) ==
    6 + (IF (type \div 4) % 2 = 0 THEN 2 ELSE 0)
      + (IF (type \div 4) % 2 = 0 /\ (type \div 2) % 2 = 0 THEN 3 ELSE 0)

\* C1: every packet stored by createPacketAndSave has
\* payloadSize + headerOverhead(type) = packetSize, for every type bitmask
\* and every parsed size
PayloadPlusOverheadIsSize ==
    \A p \in StoredPackets :
        p.payloadSize[2] + HeaderOverhead(p.type[2]) = p.packetSize[2]

\* a stored packet with neither bit set: 9 + (6 + 2 + 3) = 20
ControlPacketStored ==
    \E p \in StoredPackets :
        /\ p.type = PyInt(8)
        /\ p.packetSize = PyInt(20)
        /\ p.payloadSize = PyInt(9)

\* getPackets reads the line of the scenario,
\* 12:00:00.000000 > Packet send Type: 00000010 Size: 20 Src: 0x0A Dst: 0x0B Id: 7
ParsesScenarioLine ==
    /\ pc = "getPackets"
    /\ lineNum < Len(FileOfNode(cur))
    /\ FileOfNode(cur)[lineNum + 1] = LineSendData
    /\ lineNum' = lineNum + 1

\* one packet more in allPackets and in txPackets of the node, none in
\* rxPackets, with the fields of the scenario and the addresses src and dst
AppendsOneSent(src, dst) ==
    LET old == nodes[cur]
        new == nodes'[cur]
        n == Len(old.allPackets)
    IN  /\ Len(new.allPackets) = n + 1
        /\ SubSeq(new.allPackets, 1, n) = old.allPackets
        /\ new.txPackets = Append(old.txPackets, n + 1)
        /\ new.rxPackets = old.rxPackets
        /\ \A i \in 1..Len(nodes) : i # cur => nodes'[i] = nodes[i]
        /\ LET p == new.allPackets[n + 1]
           IN  /\ p.isSend = "True"
               /\ p.type = PyInt(2)
               /\ p.packetSize = PyInt(20)
               /\ p.payloadSize = PyInt(12)
               /\ p.source = PyStr(src)
               /\ p.destination = PyStr(dst)
               /\ p.id = PyInt(7)

Malformed(line) ==
    /\ Contains(line, M_Packet)
    /\ ~Contains(line, M_Receiving)
    /\ NULL \in {tryParseDate(Split(line)[1]), findType(Split(line))}

WellFormed(line) ==
    /\ Contains(line, M_Packet)
    /\ ~Contains(line, M_Receiving)
    /\ ~Malformed(line)

\* C3: a packet line whose timestamp or type is missing or unparseable
\* stores no packet, the diagnostic with the file and the line number is
\* printed, and the later lines of the file are still ingested: the read of
\* a file with such a line does not end in an exception, the diagnostic is
\* there once getPackets is past the line, and the packets stored are those
\* of the well-formed lines read
MalformedLineSkipped ==
    cur <= Len(nodes) =>
        LET file == FileOfNode(cur)
        IN  /\ \A k \in 1..Len(file) :
                Malformed(file[k]) =>
                    /\ pc # "crashed"
                    /\ (pc = "getPackets" /\ lineNum >= k) =>
                           printError(nodes[cur].fileName, k - 1)
                               \in Range(stdout)
            /\ pc = "getPackets" =>
                   Len(nodes[cur].allPackets) =
                       Cardinality({k \in 1..lineNum : WellFormed(file[k])})

\* the packet a reference of the plot names, and the references of the
\* received packets of all nodes
Deref(ref) == nodes[ref[1]].allPackets[ref[2]]

ReceivedRefs ==
    {ref \in UNION {{<<i, j>> : j \in 1..Len(nodes[i].allPackets)} :
                       i \in 1..Len(nodes)} :
        Deref(ref).isSend = "False"}

ReceiptRefs(entry) == {entry.receipts[k].ref : k \in 1..Len(entry.receipts)}

\* b is more than the tolerance of 150 microseconds later than a
LaterThanTolerance(a, b) == DtLT(DtAddMicros(a, 150), b)

\* the identity invariant of the specification between a sent packet s and
\* a received packet r
IdentityInvariant(s, r) ==
    /\ IsDt(s.time) /\ IsDt(r.time)
    /\ ~LaterThanTolerance(s.time, r.time)
    /\ ~LaterThanTolerance(r.time, s.time)
    /\ s.type = r.type
    /\ s.source = r.source
    /\ s.destination = r.destination
    /\ s.payloadSize = r.payloadSize
    /\ s.packetSize = r.packetSize

ShowPlotRan ==
    \/ pc \in {"plotPacketSendQueue", "sleep", "done"}
    \/ pc = "crashed" /\ exc.where \in {"showPlot", "plotPacketSendQueue"}

Permuted(packets, f) == [i \in 1..Len(packets) |-> packets[f[i]]]

\* what a run of the correlation gives: the exception, or the matched
\* pairs and the number of receptions of every sent packet
MatchedPairs(result) ==
    UNION {{<<result[k].send, result[k].receipts[j].ref>> :
               j \in 1..Len(result[k].receipts)} : k \in 1..Len(result)}

ReceptionCounts(result) ==
    {<<result[k].send, result[k].numReceiveds>> : k \in 1..Len(result)}

Outcome(r) ==
    IF r.raised # "none"
    THEN [raised |-> r.raised, pairs |-> {}, counts |-> {}]
    ELSE [raised |-> r.raised, pairs |-> MatchedPairs(r.plot),
          counts |-> ReceptionCounts(r.plot)]

\* C6: the correlation is order-independent: what showPlot drew is the
\* correlation of the merged list of packets, and the correlation of every
\* permutation of that list gives the same matched pairs and the same
\* number of receptions for every sent packet
CorrelationOrderIndependent ==
    ShowPlotRan =>
        /\ Correlation(MergedPackets(nodes)).plot = plot
        /\ \A f \in Permutations(1..Len(MergedPackets(nodes))) :
               Outcome(Correlation(Permuted(MergedPackets(nodes), f)))
                   = Outcome(Correlation(MergedPackets(nodes)))

\* showPlot matched a reception, and another packet was received at the
\* same time that is no reception of the sent packet
MatchedNextToUnmatched ==
    /\ ShowPlotRan
    /\ \E k \in 1..Len(plot) :
           \E r1 \in ReceiptRefs(plot[k]) :
               \E r2 \in ReceivedRefs \ ReceiptRefs(plot[k]) :
                   Deref(r1).time = Deref(r2).time

RECURSIVE SumLen(_, _)
SumLen(ns, field) ==
    IF ns = <<>> THEN 0 ELSE Len(Head(ns)[field]) + SumLen(Tail(ns), field)

\* C7: the aggregator reports maxPossibleReceived = totalSent *
\* (nodeCount - 1) and lossCount = maxPossibleReceived - totalReceived,
\* with totalSent and totalReceived the lengths of the sent and received
\* lists of the nodes together and nodeCount the number of nodes
ReportedCounts ==
    \A k \in 1..Len(stdout) :
        stdout[k].kind = "packets" =>
            /\ stdout[k].sent = SumLen(nodes, "txPackets")
            /\ stdout[k].actual = SumLen(nodes, "rxPackets")
            /\ stdout[k].maxPossible = stdout[k].sent * (Len(nodes) - 1)
            /\ stdout[k].loss = stdout[k].maxPossible - stdout[k].actual

\* three nodes, one packet sent and one reception: 2 possible, 1 lost
ReportedForThreeNodes ==
    \E k \in 1..Len(stdout) :
        /\ stdout[k].kind = "packets"
        /\ Len(nodes) = 3
        /\ stdout[k].sent = 1
        /\ stdout[k].maxPossible = 2
        /\ stdout[k].actual = 1
        /\ stdout[k].loss = 1

\* plotPacketSendQueue has run, to its end or to an exception
PlotPacketSendQueueRan ==
    \/ pc \in {"sleep", "done"}
    \/ pc = "crashed" /\ exc.where = "plotPacketSendQueue"

HourOfSample(sample) ==
    IF IsDt(sample.time) THEN DtHour(sample.time)
    ELSE DtHour(tryParseDateTime(sample.time))

\* C8: when the samples of a node go from hour 23 to hour 0 the day offset
\* is incremented and added, so that the adjusted time of the second sample
\* is later than that of the first, as for 23:59:58 and 00:00:02
RolloverKeepsTimeline ==
    PlotPacketSendQueueRan =>
        \A i \in 1..Len(nodes) :
            \A j \in 1..(Len(nodes[i].packetQueueLength) - 1) :
                LET a == nodes[i].packetQueueLength[j]
                    b == nodes[i].packetQueueLength[j + 1]
                IN  (/\ a.time # NULL /\ b.time # NULL
                     /\ HourOfSample(a) = 23 /\ HourOfSample(b) = 0)
                        => /\ IsDt(a.time) /\ IsDt(b.time)
                           /\ DtLT(a.time, b.time)
                           /\ pc # "crashed"

Phase2Pcs == {"printGeneralInfo", "showPlot", "plotPacketSendQueue", "sleep", "done"}

\* saveCv has been called: the second phase has begun
InPhase2 == pc \in Phase2Pcs \/ (pc = "crashed" /\ exc.where # "getAddr")

\* getInformation has returned for every node
IngestionFinished ==
    /\ cur = Len(nodes) + 1
    /\ \A i \in 1..Len(nodes) : nodes[i].json

\* what getAddr and getPackets write: the address, the counter, the lists
Ingested(ns) ==
    [i \in 1..Len(ns) |->
        <<ns[i].address, ns[i].allPacketsNum, Len(ns[i].allPackets),
          ns[i].rxPackets, ns[i].txPackets, Len(ns[i].allErrors),
          Len(ns[i].packetQueueLength)>>]

\* C9: saveCv, printGeneralInfo, showPlot and plotPacketSendQueue start
\* only after the ingestion of every node has finished, and no step of
\* getAddr or getPackets runs once the second phase has begun
TwoPhases ==
    /\ [](InPhase2 => IngestionFinished)
    /\ [][(pc = "join" /\ pc' # "join") => IngestionFinished]_vars
    /\ [][InPhase2 => (/\ InPhase2'
                       /\ pc' \notin {"for", "getAddr", "getPackets", "join"}
                       /\ cur' = cur
                       /\ Ingested(nodes') = Ingested(nodes))]_vars

\* the second phase over two nodes or more
Phase2OverNodes ==
    /\ pc = "showPlot"
    /\ Len(nodes) >= 2
    /\ IngestionFinished
    /\ \A i \in 1..Len(nodes) : nodes[i].allPackets # <<>>

\* the packets, errors and queue samples the nodes hold
Events(ns) ==
    [i \in 1..Len(ns) |->
        <<ns[i].allPackets, ns[i].allErrors, ns[i].packetQueueLength>>]

\* one of saveCv, printGeneralInfo, showPlot, plotPacketSendQueue is called
Phase2Step ==
    /\ pc \in {"join", "printGeneralInfo", "showPlot", "plotPacketSendQueue"}
    /\ pc' # pc

ClearTimes(dicts) == [j \in 1..Len(dicts) |-> [dicts[j] EXCEPT !.time = NULL]]

WithoutTimes(ns) ==
    [i \in 1..Len(ns) |->
        <<ClearTimes(ns[i].allPackets), ClearTimes(ns[i].allErrors),
          ClearTimes(ns[i].packetQueueLength)>>]

\* every time is left as it was or replaced by the datetime parsed from it
\* (NULL when it does not parse)
TimesParsed(old, new) ==
    /\ Len(new) = Len(old)
    /\ \A j \in 1..Len(old) :
           new[j].time \in {old[j].time, tryParseDateTime(old[j].time)}

ParseFailuresAbsorbed == ~(pc = "crashed" /\ exc.where = "getAddr")

\* the node went through getInformation and no line gave it an address
WithoutAddress(i) == nodes[i].json /\ nodes[i].address = NULL

\* C12: a node whose file holds no address line keeps the address 0, which
\* is no error: showPlot raises nothing, and the correlation matches no
\* packet of that node, neither a receipt to one of its sent packets nor
\* one of its receipts to a sent packet
MissingAddressHarmless ==
    \A i \in 1..Len(nodes) :
        WithoutAddress(i) =>
            /\ ~(pc = "crashed" /\ exc.where = "showPlot")
            /\ \A k \in 1..Len(plot) :
                   /\ plot[k].send[1] = i => plot[k].numReceiveds = 0
                   /\ \A ref \in ReceiptRefs(plot[k]) : ref[1] # i

\* the records of one kind among what printGeneralInfo printed
Printed(kind) ==
    {stdout[k] : k \in {j \in 1..Len(stdout) : stdout[j].kind = kind}}

\* C13 as the specification states it: the loss percentage that is printed
\* is never positive
LossNeverPositive ==
    \A r \in Printed("total_loss") : r.den > 0 /\ r.num <= 0

\* C13: the loss percentage (received / possible - 1) * 100 has the sign
\* of received - possible: it is negative when fewer packets were received
\* than the maximum possible, zero when as many, and positive when more
LossHasSignOfSurplus ==
    \A r \in Printed("total_loss") :
        \A c \in Printed("packets") :
            /\ r.den = c.maxPossible
            /\ r.den > 0
            /\ (r.num < 0) = (c.actual < c.maxPossible)
            /\ (r.num = 0) = (c.actual = c.maxPossible)
            /\ (r.num > 0) = (c.actual > c.maxPossible)

\* more packets were received than the maximum possible
LossPositive ==
    \E r \in Printed("total_loss") : r.den > 0 /\ r.num > 0

\* a step of a started worker thread
WorkerStep ==
    \E i \in 1..Len(threads) :
        threads[i] = "started" /\ threads'[i] # threads[i]

\* C14: the nodes are ingested by one worker thread each: what getAddr and
\* getPackets write to a node is written in a step of a started thread,
\* the main thread waiting at join
WorkersIngest == [][Ingested(nodes') # Ingested(nodes) => WorkerStep]_vars

\* a packet line whose first token is a time of day and whose Type token is
\* an integer in base 2
ParsesAsPacket(line) ==
    /\ Contains(line, M_Packet)
    /\ ~Contains(line, M_Receiving)
    /\ IsDt(strptime(Split(line)[1]))
    /\ IsInt(int(getNextValue(Split(line), L_Type), 2))

\* C15: a packet line is skipped only when its time or its type does not
\* parse: a node that was ingested holds one packet for every line of its
\* file with the packet marker, a time that parses and a Type that parses
\* in base 2, the bitmask 00000000 included
EveryParsedLineStored ==
    \A i \in 1..Len(nodes) :
        nodes[i].json =>
            Len(nodes[i].allPackets) =
                Cardinality({k \in 1..Len(FileOfNode(i)) :
                                ParsesAsPacket(FileOfNode(i)[k])})

\* C16: printGeneralInfo runs to its end and prints its report for every
\* trace that was ingested, also one with no packet, with no sent packet or
\* of a single node: it raises no exception
AggregationCompletes == ~(pc = "crashed" /\ exc.where = "printGeneralInfo")

\* the type of the packet has the DATA flag set
HasDataFlag(packet) ==
    IsInt(packet.type) /\ BitAnd(packet.type[2], DATA_P) = DATA_P

\* C17: the data byte totals that printGeneralInfo prints are the sums of
\* the sizes of the sent and of the received packets whose type has the
\* DATA flag set, whatever other flags are set with it
DataBytesOverDataFlag ==
    \A r \in Printed("data_bytes") :
        /\ r.sent = SumPacketSize(SelectSeq(AllPacketsSended(nodes),
                                            HasDataFlag))
        /\ r.actual = SumPacketSize(SelectSeq(AllPacketsReceived(nodes),
                                              HasDataFlag))

\* C18: the window test of the correlation loop is true for every receipt
\* and the branch that resets margin and moves previousTime is never
\* taken: for every sent packet drawn, the k-th receipt counted is drawn
\* with margin k, margin ends as the number of receipts, and previousTime
\* is still the time of the sent packet less 15 microseconds
WindowTestAlwaysTrue ==
    \A k \in 1..Len(plot) :
        /\ plot[k].previousTime = DtAddMicros(Deref(plot[k].send).time, -15)
        /\ plot[k].margin = Len(plot[k].receipts)
        /\ plot[k].numReceiveds = Len(plot[k].receipts)
        /\ \A j \in 1..Len(plot[k].receipts) :
               /\ plot[k].receipts[j].margin = j
               /\ InWindow(DtAddMicros(Deref(plot[k].send).time, -15),
                           Deref(plot[k].receipts[j].ref).time)

\* a sent packet drawn with two receipts, the second later than maxTime
ReceiptPastMaxTime ==
    \E k \in 1..Len(plot) :
        /\ Len(plot[k].receipts) = 2
        /\ plot[k].receipts[2].margin = 2
        /\ DtLT(DtAddMicros(plot[k].previousTime, 100),
                Deref(plot[k].receipts[2].ref).time)

\* a line that getAddr takes as an announcement of the address, and the
\* address it announces
IsAnnouncement(line) ==
    \/ Contains(line, M_WiFiMAC)
    \/ Contains(line, M_PacketSend) /\ Contains(line, M_Type100)

Announced(line) ==
    IF Contains(line, M_WiFiMAC)
    THEN PyStr(SubSeq(line, Len(line) - 4, Len(line) - 1))
    ELSE IF IsStr(getNextValue(Split(line), L_Src))
    THEN PyStr(Tail(Tail(getNextValue(Split(line), L_Src)[2])))
    ELSE NULL

FirstAnnounced(file) ==
    IF \A k \in 1..Len(file) : ~IsAnnouncement(file[k]) THEN NULL
    ELSE Announced(file[CHOOSE k \in 1..Len(file) :
                            /\ IsAnnouncement(file[k])
                            /\ \A j \in 1..(k - 1) : ~IsAnnouncement(file[j])])

\* getAddr has returned for node i
AddressRead(i) == i < cur \/ (i = cur /\ pc = "getPackets")

\* C19: once getAddr has returned for a node, the address of the node is
\* what the first announcement line of its file gives, or 0 without such a
\* line, whatever later lines announce, and every packet and every error
\* the node holds has that address as deviceId
AddressFromFirstAnnouncement ==
    \A i \in 1..Len(nodes) :
        AddressRead(i) =>
            /\ nodes[i].address = FirstAnnounced(FileOfNode(i))
            /\ \A k \in 1..Len(nodes[i].allPackets) :
                   nodes[i].allPackets[k].deviceId = nodes[i].address
            /\ \A k \in 1..Len(nodes[i].allErrors) :
                   nodes[i].allErrors[k].deviceId = nodes[i].address

\* a node ingested from a file with two announcements of different
\* addresses holds a packet or an error
SecondAnnouncementIgnored ==
    \E i \in 1..Len(nodes) :
        /\ nodes[i].json
        /\ \E j, k \in 1..Len(FileOfNode(i)) :
               /\ j < k
               /\ IsAnnouncement(FileOfNode(i)[j])
               /\ IsAnnouncement(FileOfNode(i)[k])
               /\ Announced(FileOfNode(i)[j]) # Announced(FileOfNode(i)[k])
               /\ nodes[i].address = Announced(FileOfNode(i)[j])
        /\ Len(nodes[i].allPackets) + Len(nodes[i].allErrors) > 0

====
